---- MODULE Spec2Model ----
(***************************************************************************)
(* CHIP-8 interpreter (src/src/main.rs): the Chip8 engine, emulate_cycle   *)
(* and the event loop of main that drives it.                              *)
(*                                                                         *)
(* Representation.  chip8.memory is the [u8; 4096] array held as the       *)
(* function from the addresses whose byte is non-zero to that byte; every  *)
(* other address reads 0 (mem_get).  chip8.screen is the [u8; 2048] array  *)
(* held as the set of indices whose cell is 1 (cells are only ever 0 / 1). *)
(* Both arrays are zero-initialised by Chip8::new, so both start empty.    *)
(*                                                                         *)
(* An operation that can panic returns [c |-> engine, panic |-> BOOLEAN];  *)
(* c is the engine as the code left it at the point of the panic.          *)
(***************************************************************************)
EXTENDS Integers, Sequences, FiniteSets, TLC

VARIABLES
    chip8,            \* the Chip8 struct owned by main
    loc,              \* position of main: "new", "init", "poll", "cycle",
                      \* "aborted" (main returned after its pc check),
                      \* "panicked" (the process died on a Rust panic)
    opcode,           \* the last opcode emulate_cycle fetched (its local)
    beep,             \* whether the last emulate_cycle printed "BEEP!"
    overflow_checks,  \* the build: TRUE panics on integer overflow (debug),
                      \* FALSE wraps (release)
    cycles,           \* events taken from window.next() so far
    e,                \* the event of the loop iteration under way: the
                      \* button and state of a button event, else NoEvent
    calls             \* history: the address and the stack pointer of each
                      \* call that has not returned yet, oldest first

vars == <<chip8, loc, opcode, beep, overflow_checks, cycles, e, calls>>

-----------------------------------------------------------------------------
(* Bounds and inputs *)

\* The window closes (window.next() returns None) after MaxCycles events.
MaxCycles == 18

\* Values rand::random::<u16>() returns.
RandInputs == {0, \hABCD}

\* Physical buttons pressed or released: D1 is key 1, V is key 15, P is no key.
ButtonInputs == {"D1", "V", "P"}

-----------------------------------------------------------------------------
(* Machine arithmetic *)

MEMORY_SIZE == 4096
SCREEN_SIZE == 2048
STACK_SIZE == 16
KEY_COUNT == 16
U16 == 65536
U8 == 256
PC_START == 512
ROM_START == 512

FIRST_NIBBLE_MASK == \hF000
SECOND_NIBBLE_MASK == \h0F00
THIRD_NIBBLE_MASK == \h00F0
FOURTH_NIBBLE_MASK == \h000F
LAST_TWO_MASK == \h00FF
LAST_THREE_MASK == \h0FFF

RECURSIVE BitAnd(_, _)
BitAnd(a, b) ==
    IF a = 0 \/ b = 0 THEN 0
    ELSE (a % 2) * (b % 2) + 2 * BitAnd(a \div 2, b \div 2)

RECURSIVE BitOr(_, _)
BitOr(a, b) ==
    IF a = 0 THEN b
    ELSE IF b = 0 THEN a
    ELSE (IF (a % 2) + (b % 2) > 0 THEN 1 ELSE 0) + 2 * BitOr(a \div 2, b \div 2)

RECURSIVE BitXor(_, _)
BitXor(a, b) ==
    IF a = 0 THEN b
    ELSE IF b = 0 THEN a
    ELSE (((a % 2) + (b % 2)) % 2) + 2 * BitXor(a \div 2, b \div 2)

RECURSIVE Pow2(_)
Pow2(n) == IF n = 0 THEN 1 ELSE 2 * Pow2(n - 1)

\* a >> n
Shr(a, n) == a \div Pow2(n)

\* a << n on a u8 (bits shifted out are lost)
Shl8(a, n) == (a * Pow2(n)) % U8

Ok(c) == [c |-> c, panic |-> FALSE]

Panic(c) == [c |-> c, panic |-> TRUE]

-----------------------------------------------------------------------------
(* Memory and screen arrays *)

mem_get(memory, a) == IF a \in DOMAIN memory THEN memory[a] ELSE 0

mem_set(memory, a, b) ==
    IF b = 0
    THEN [x \in DOMAIN memory \ {a} |-> memory[x]]
    ELSE [x \in DOMAIN memory \cup {a} |-> IF x = a THEN b ELSE memory[x]]

screen_get(screen, index) == IF index \in screen THEN 1 ELSE 0

\* screen[index] ^= 1
screen_flip(screen, index) ==
    IF index \in screen THEN screen \ {index} ELSE screen \cup {index}

-----------------------------------------------------------------------------
(* Chip8::new, initialize, load_font, load_rom *)

Chip8_new ==
    [ memory      |-> << >>,
      v           |-> [r \in 0..15 |-> 0],
      i           |-> 0,
      pc          |-> PC_START,
      screen      |-> {},
      draw_flag   |-> FALSE,
      halt_flag   |-> FALSE,
      halt_reg    |-> 0,
      delay_timer |-> 0,
      sound_timer |-> 0,
      stack       |-> [k \in 0..15 |-> 0],
      sp          |-> 0,
      key         |-> [k \in 0..15 |-> 0] ]

font ==
    << \hF0, \h90, \h90, \h90, \hF0,
       \h20, \h60, \h20, \h20, \h70,
       \hF0, \h10, \hF0, \h80, \hF0,
       \hF0, \h10, \hF0, \h10, \hF0,
       \h90, \h90, \hF0, \h10, \h10,
       \hF0, \h80, \hF0, \h10, \hF0,
       \hF0, \h80, \hF0, \h90, \hF0,
       \hF0, \h10, \h20, \h40, \h40,
       \hF0, \h90, \hF0, \h90, \hF0,
       \hF0, \h90, \hF0, \h10, \hF0,
       \hF0, \h90, \hF0, \h90, \h90,
       \hE0, \h90, \hE0, \h90, \hE0,
       \hF0, \h80, \hF0, \h80, \h80,
       \hE0, \h90, \h90, \h90, \hE0,
       \hF0, \h80, \hF0, \h80, \hF0,
       \hF0, \h80, \hF0, \h80, \h80 >>

\* memory[start + k - 1] = bytes[k] for the k in 1..n, all at once
mem_copy(memory, start, bytes, n) ==
    LET written == start .. (start + n - 1)
        byte(a) == IF a \in written THEN bytes[a - start + 1] ELSE memory[a]
        keep == {a \in DOMAIN memory \cup written : byte(a) # 0}
    IN  [a \in keep |-> byte(a)]

load_font(c) == [c EXCEPT !.memory = mem_copy(c.memory, 0, font, Len(font))]

initialize(c) == load_font(c)

\* The loop writes memory[512], memory[513], ... and panics on the index
\* 4096, after the bytes that fit were written.  (File::open and the byte
\* reads are taken to succeed.)
load_rom(c, rom) ==
    LET room == MEMORY_SIZE - ROM_START
        n    == IF Len(rom) > room THEN room ELSE Len(rom)
        c2   == [c EXCEPT !.memory = mem_copy(c.memory, ROM_START, rom, n)]
    IN  IF Len(rom) > room THEN Panic(c2) ELSE Ok(c2)

-----------------------------------------------------------------------------
(* Instruction fields *)

\* (opcode & SECOND_NIBBLE_MASK) >> 8
nibble_x(op) == Shr(BitAnd(op, SECOND_NIBBLE_MASK), 8)

\* (opcode & THIRD_NIBBLE_MASK) >> 4
nibble_y(op) == Shr(BitAnd(op, THIRD_NIBBLE_MASK), 4)

\* Mutant: the advance is one byte, not one instruction.
next_instruction_one_byte(c) == [c EXCEPT !.pc = c.pc + 1]

\* pc is at most 4095 when an instruction executes (read_opcode panics
\* otherwise), so the u16 addition cannot overflow.
next_instruction(c) == [c EXCEPT !.pc = c.pc + 2]

clear_screenbuf(c) == [c EXCEPT !.screen = {}]

-----------------------------------------------------------------------------
(* 0x0NNN, 0x1NNN, 0x2NNN, 0xBNNN: clear, return, jump, call *)

op_cls(c) == Ok(next_instruction(clear_screenbuf(c)))

\* Mutant: the return goes back to the call itself, not past it.
op_ret_no_advance(c, oc) ==
    IF c.sp >= STACK_SIZE THEN Panic(c)
    ELSE LET c1 == [c EXCEPT !.pc = c.stack[c.sp]]
         IN  IF c.sp = 0
             THEN IF oc THEN Panic(c1) ELSE Ok([c1 EXCEPT !.sp = U16 - 1])
             ELSE Ok([c1 EXCEPT !.sp = c.sp - 1])

\* pc = stack[sp]; sp -= 1; next_instruction().  stack[sp] panics when sp is
\* not an index of the array; sp -= 1 at sp = 0 panics in a build with
\* overflow checks and wraps to 65535 in one without.
op_ret(c, oc) ==
    IF c.sp >= STACK_SIZE THEN Panic(c)
    ELSE LET c1 == [c EXCEPT !.pc = c.stack[c.sp]]
         IN  IF c.sp = 0
             THEN IF oc THEN Panic(c1)
                  ELSE Ok(next_instruction([c1 EXCEPT !.sp = U16 - 1]))
             ELSE Ok(next_instruction([c1 EXCEPT !.sp = c.sp - 1]))

op_0nnn(c, op, oc) ==
    LET n == BitAnd(op, FOURTH_NIBBLE_MASK)
    IN  CASE n = \h0 -> op_cls(c)
          [] n = \hE -> op_ret(c, oc)
          [] OTHER   -> Ok(c)

op_jump(c, op) == Ok([c EXCEPT !.pc = BitAnd(op, LAST_THREE_MASK)])

\* sp += 1; stack[sp] = pc; pc = nnn; println!(.., self.pc - 512).
\* sp += 1 at 65535 and pc - 512 below 512 overflow; stack[sp] panics when sp
\* is 16 or more.
op_call(c, op, oc) ==
    IF c.sp = U16 - 1 /\ oc THEN Panic(c)
    ELSE LET c1 == [c EXCEPT !.sp = (c.sp + 1) % U16]
         IN  IF c1.sp >= STACK_SIZE THEN Panic(c1)
             ELSE LET c2 == [c1 EXCEPT !.stack[c1.sp] = c.pc,
                                       !.pc = BitAnd(op, LAST_THREE_MASK)]
                  IN  IF c2.pc < 512 /\ oc THEN Panic(c2) ELSE Ok(c2)

op_jump_v0(c, op) ==
    Ok([c EXCEPT !.pc = BitAnd(op, LAST_THREE_MASK) + c.v[0]])

-----------------------------------------------------------------------------
(* 0x3XKK, 0x4XKK, 0x5XY0, 0x9XY0: skips *)

\* Mutant: the skips never skip.
skip_if_never(c, cond) == next_instruction(c)

skip_if(c, cond) ==
    next_instruction(IF cond THEN next_instruction(c) ELSE c)

op_se_kk(c, op) ==
    Ok(skip_if(c, c.v[nibble_x(op)] = BitAnd(op, LAST_TWO_MASK)))

op_sne_kk(c, op) ==
    Ok(skip_if(c, c.v[nibble_x(op)] # BitAnd(op, LAST_TWO_MASK)))

op_se_xy(c, op) == Ok(skip_if(c, c.v[nibble_x(op)] = c.v[nibble_y(op)]))

op_sne_xy(c, op) == Ok(skip_if(c, c.v[nibble_x(op)] # c.v[nibble_y(op)]))

-----------------------------------------------------------------------------
(* 0x6XKK, 0x7XKK, 0x8XYN, 0xANNN, 0xCXNN: registers *)

op_ld_kk(c, op) ==
    Ok(next_instruction([c EXCEPT !.v[nibble_x(op)] = BitAnd(op, LAST_TWO_MASK)]))

\* (v[x] as u16).overflowing_add(kk).0 as u8
op_add_kk(c, op) ==
    Ok(next_instruction(
        [c EXCEPT !.v[nibble_x(op)] = ((@ + BitAnd(op, LAST_TWO_MASK)) % U16) % U8]))

\* The statements of each arm run in the code's order on the same array, so
\* the flag written to v[15] is what a later read of v[15] sees.
alu_mov(c, x, y) == [c EXCEPT !.v[x] = c.v[y]]

alu_or(c, x, y) == [c EXCEPT !.v[x] = BitOr(c.v[x], c.v[y])]

alu_and(c, x, y) == [c EXCEPT !.v[x] = BitAnd(c.v[x], c.v[y])]

alu_xor(c, x, y) == [c EXCEPT !.v[x] = BitXor(c.v[x], c.v[y])]

\* Mutant: the carry is set on overflow and otherwise left as it was.
alu_add_keeps_flag(c, x, y) ==
    LET sum == c.v[x] + c.v[y]
        c1  == [c EXCEPT !.v[x] = sum % U8]
    IN  IF sum >= U8 THEN [c1 EXCEPT !.v[15] = 1] ELSE c1

alu_add(c, x, y) ==
    LET sum == c.v[x] + c.v[y]
        c1  == [c EXCEPT !.v[x] = sum % U8]
    IN  [c1 EXCEPT !.v[15] = IF sum >= U8 THEN 1 ELSE 0]

alu_sub(c, x, y) ==
    LET c1 == [c EXCEPT !.v[15] = IF c.v[x] > c.v[y] THEN 1 ELSE 0]
    IN  [c1 EXCEPT !.v[x] = (c1.v[x] - c1.v[y]) % U8]

alu_shr(c, op, x) ==
    LET c1 == IF BitAnd(op, 128) = 128 THEN [c EXCEPT !.v[15] = 1] ELSE c
    IN  [c1 EXCEPT !.v[x] = Shr(c1.v[x], 1)]

alu_subn(c, x, y) ==
    LET c1 == [c EXCEPT !.v[15] = IF c.v[y] > c.v[x] THEN 1 ELSE 0]
    IN  [c1 EXCEPT !.v[x] = (c1.v[y] - c1.v[x]) % U8]

alu_shl(c, op, x) ==
    LET c1 == IF BitAnd(op, 1) = 1 THEN [c EXCEPT !.v[15] = 1] ELSE c
    IN  [c1 EXCEPT !.v[x] = Shl8(c1.v[x], 1)]

op_8xyn(c, op) ==
    LET x == nibble_x(op)
        y == nibble_y(op)
        n == BitAnd(op, FOURTH_NIBBLE_MASK)
        c1 == CASE n = \h0 -> alu_mov(c, x, y)
                [] n = \h1 -> alu_or(c, x, y)
                [] n = \h2 -> alu_and(c, x, y)
                [] n = \h3 -> alu_xor(c, x, y)
                [] n = \h4 -> alu_add(c, x, y)
                [] n = \h5 -> alu_sub(c, x, y)
                [] n = \h6 -> alu_shr(c, op, x)
                [] n = \h7 -> alu_subn(c, x, y)
                [] n = \hE -> alu_shl(c, op, x)
                [] OTHER   -> c
    IN  Ok(next_instruction(c1))

op_ld_i(c, op) ==
    Ok(next_instruction([c EXCEPT !.i = BitAnd(op, LAST_THREE_MASK)]))

\* v[x] = (rand & n) as u8
op_rnd(c, op, rand) ==
    Ok(next_instruction(
        [c EXCEPT !.v[nibble_x(op)] =
            BitAnd(rand, BitAnd(op, LAST_TWO_MASK)) % U8]))

-----------------------------------------------------------------------------
(* 0xDXYN: draw *)

\* The xline loop over one sprite row, from column xline on.  A set bit
\* whose index is 2048 or more is skipped (continue).
RECURSIVE draw_pixels(_, _, _, _, _, _)
draw_pixels(c, pixel_line, x, y, yline, xline) ==
    IF xline = 8 THEN c
    ELSE LET index == x + xline + ((y + yline) * 64)
             set   == BitAnd(Shr(pixel_line, 7 - xline), 1) # 0
             c1    == IF set /\ index < SCREEN_SIZE
                      THEN [c EXCEPT
                              !.v[15]  = IF screen_get(c.screen, index) = 1
                                         THEN 1 ELSE @,
                              !.screen = screen_flip(@, index)]
                      ELSE c
         IN  draw_pixels(c1, pixel_line, x, y, yline, xline + 1)

\* The yline loop, from row yline on; memory[i + yline] panics past 4095.
RECURSIVE draw_lines(_, _, _, _, _)
draw_lines(c, x, y, height, yline) ==
    IF yline = height THEN Ok(c)
    ELSE IF c.i + yline >= MEMORY_SIZE THEN Panic(c)
    ELSE draw_lines(
            draw_pixels(c, mem_get(c.memory, c.i + yline), x, y, yline, 0),
            x, y, height, yline + 1)

\* Mutant: the draw without "Unset our collision flag".
op_draw_keeps_flag(c, op) ==
    LET c1 == [c EXCEPT !.draw_flag = TRUE]
        x  == c1.v[nibble_x(op)]
        y  == c1.v[nibble_y(op)]
        height == BitAnd(op, FOURTH_NIBBLE_MASK)
        r  == draw_lines(c1, x, y, height, 0)
    IN  IF r.panic THEN r ELSE Ok(next_instruction(r.c))

op_draw(c, op) ==
    LET c1 == [c EXCEPT !.draw_flag = TRUE]
        x  == c1.v[nibble_x(op)]
        y  == c1.v[nibble_y(op)]
        height == BitAnd(op, FOURTH_NIBBLE_MASK)
        r  == draw_lines([c1 EXCEPT !.v[15] = 0], x, y, height, 0)
    IN  IF r.panic THEN r ELSE Ok(next_instruction(r.c))

-----------------------------------------------------------------------------
(* 0xEX9E, 0xEXA1: key skips.  key[v[x]] panics when v[x] is 16 or more. *)

op_skp(c, op) ==
    LET k == c.v[nibble_x(op)]
    IN  IF k >= KEY_COUNT THEN Panic(c) ELSE Ok(skip_if(c, c.key[k] = 1))

op_sknp(c, op) ==
    LET k == c.v[nibble_x(op)]
    IN  IF k >= KEY_COUNT THEN Panic(c) ELSE Ok(skip_if(c, c.key[k] = 0))

op_exnn(c, op) ==
    LET nn == BitAnd(op, LAST_TWO_MASK)
    IN  CASE nn = \h9E -> op_skp(c, op)
          [] nn = \hA1 -> op_sknp(c, op)
          [] OTHER     -> Ok(c)

-----------------------------------------------------------------------------
(* 0xFXNN: timers, wait for key, index register, memory *)

op_ld_dt(c, x) == Ok(next_instruction([c EXCEPT !.v[x] = c.delay_timer]))

\* Mutant: the wait leaves pc on the instruction.
op_wait_key_no_advance(c, op) ==
    LET x == Shr(BitAnd(op, THIRD_NIBBLE_MASK), 8)
    IN  Ok([c EXCEPT !.halt_flag = TRUE, !.halt_reg = x % U8])

\* let x = (opcode & THIRD_NIBBLE_MASK) >> 8; halt_reg = x as u8
op_wait_key(c, op) ==
    LET x == Shr(BitAnd(op, THIRD_NIBBLE_MASK), 8)
    IN  Ok(next_instruction([c EXCEPT !.halt_flag = TRUE, !.halt_reg = x % U8]))

op_set_dt(c, x) == Ok(next_instruction([c EXCEPT !.delay_timer = c.v[x]]))

op_set_st(c, x) == Ok(next_instruction([c EXCEPT !.sound_timer = c.v[x]]))

\* i += v[x] as u16
op_add_i(c, x, oc) ==
    IF c.i + c.v[x] >= U16 /\ oc THEN Panic(c)
    ELSE Ok(next_instruction([c EXCEPT !.i = (c.i + c.v[x]) % U16]))

op_font(c, x) == Ok(next_instruction([c EXCEPT !.i = c.v[x] * 5]))

op_bcd(c, x) ==
    LET bcd == c.v[x]
        c1  == [c  EXCEPT !.memory = mem_set(@, c.i, bcd \div 100)]
        c2  == [c1 EXCEPT !.memory = mem_set(@, c.i + 1, (bcd \div 10) % 10)]
        c3  == [c2 EXCEPT !.memory = mem_set(@, c.i + 2, (bcd % 100) % 10)]
    IN  IF c.i >= MEMORY_SIZE THEN Panic(c)
        ELSE IF c.i + 1 >= MEMORY_SIZE THEN Panic(c1)
        ELSE IF c.i + 2 >= MEMORY_SIZE THEN Panic(c2)
        ELSE Ok(next_instruction(c3))

\* for n in 0..x { memory[i + n] = v[n] }, from n on
RECURSIVE store_regs(_, _, _)
store_regs(c, x, n) ==
    IF n >= x THEN Ok(c)
    ELSE IF c.i + n >= MEMORY_SIZE THEN Panic(c)
    ELSE store_regs([c EXCEPT !.memory = mem_set(@, c.i + n, c.v[n])], x, n + 1)

op_store(c, x) ==
    LET r == store_regs(c, x, 0)
    IN  IF r.panic THEN r ELSE Ok(next_instruction(r.c))

\* for n in 0..x { v[n] = memory[i + n] }, from n on
RECURSIVE load_regs(_, _, _)
load_regs(c, x, n) ==
    IF n >= x THEN Ok(c)
    ELSE IF c.i + n >= MEMORY_SIZE THEN Panic(c)
    ELSE load_regs([c EXCEPT !.v[n] = mem_get(c.memory, c.i + n)], x, n + 1)

op_load(c, x) ==
    LET r == load_regs(c, x, 0)
    IN  IF r.panic THEN r ELSE Ok(next_instruction(r.c))

op_fxnn(c, op, oc) ==
    LET x  == nibble_x(op)
        nn == BitAnd(op, LAST_TWO_MASK)
    IN  CASE nn = \h07 -> op_ld_dt(c, x)
          [] nn = \h0A -> op_wait_key(c, op)
          [] nn = \h15 -> op_set_dt(c, x)
          [] nn = \h18 -> op_set_st(c, x)
          [] nn = \h1E -> op_add_i(c, x, oc)
          [] nn = \h29 -> op_font(c, x)
          [] nn = \h33 -> op_bcd(c, x)
          [] nn = \h55 -> op_store(c, x)
          [] nn = \h65 -> op_load(c, x)
          [] OTHER     -> Ok(c)

-----------------------------------------------------------------------------
(* emulate_cycle *)

\* memory[pc] and memory[pc + 1] are both indices of the array
fetch_in_bounds(c) == c.pc < MEMORY_SIZE /\ c.pc + 1 < MEMORY_SIZE

read_opcode(c) ==
    BitOr(mem_get(c.memory, c.pc) * 256, mem_get(c.memory, c.pc + 1))

\* match opcode & FIRST_NIBBLE_MASK
execute(c, op, rand, oc) ==
    LET first == BitAnd(op, FIRST_NIBBLE_MASK)
    IN  CASE first = \h0000 -> op_0nnn(c, op, oc)
          [] first = \h1000 -> op_jump(c, op)
          [] first = \h2000 -> op_call(c, op, oc)
          [] first = \h3000 -> op_se_kk(c, op)
          [] first = \h4000 -> op_sne_kk(c, op)
          [] first = \h5000 -> op_se_xy(c, op)
          [] first = \h6000 -> op_ld_kk(c, op)
          [] first = \h7000 -> op_add_kk(c, op)
          [] first = \h8000 -> op_8xyn(c, op)
          [] first = \h9000 -> op_sne_xy(c, op)
          [] first = \hA000 -> op_ld_i(c, op)
          [] first = \hB000 -> op_jump_v0(c, op)
          [] first = \hC000 -> op_rnd(c, op, rand)
          [] first = \hD000 -> op_draw(c, op)
          [] first = \hE000 -> op_exnn(c, op)
          [] first = \hF000 -> op_fxnn(c, op, oc)
          [] OTHER          -> Ok(c)

\* Mutant: the timers are decremented without the "> 0" tests and wrap.
update_timers_unfloored(c) ==
    [c EXCEPT !.delay_timer = (@ + U8 - 1) % U8,
              !.sound_timer = (@ + U8 - 1) % U8,
              !.draw_flag   = FALSE]

\* "Update timer(s)" and the draw_flag reset that end emulate_cycle
update_timers(c) ==
    [c EXCEPT !.delay_timer = IF @ > 0 THEN @ - 1 ELSE @,
              !.sound_timer = IF @ > 0 THEN @ - 1 ELSE @,
              !.draw_flag   = FALSE]

\* Mutant: "BEEP!" once the sound timer has run out.
beeps_at_zero(c) == c.sound_timer = 0

\* whether "BEEP!" is printed by the timer update
beeps(c) == c.sound_timer = 1

\* Mutant: emulate_cycle without its halt_flag test.
halted_never(c) == FALSE

halted(c) == c.halt_flag

\* The whole of emulate_cycle: the engine after it, whether it panicked, the
\* opcode it fetched (last, the caller's previous one, when it fetched none)
\* and whether it printed "BEEP!".
emulate_cycle(c, last, rand, oc) ==
    IF halted(c)
    THEN [c |-> c, panic |-> FALSE, opcode |-> last, beep |-> FALSE]
    ELSE IF ~fetch_in_bounds(c)
    THEN [c |-> c, panic |-> TRUE, opcode |-> last, beep |-> FALSE]
    ELSE LET op == read_opcode(c)
             r  == execute(c, op, rand, oc)
         IN  IF r.panic
             THEN [c |-> r.c, panic |-> TRUE, opcode |-> op, beep |-> FALSE]
             ELSE [c |-> update_timers(r.c), panic |-> FALSE, opcode |-> op,
                   beep |-> beeps(r.c)]

-----------------------------------------------------------------------------
(* main: key events *)

\* The key a button maps to; 255 is "Unknown key" (the Err result).
key_translator(button) ==
    CASE button = "D1" -> 1
      [] button = "D2" -> 2
      [] button = "D3" -> 3
      [] button = "D4" -> 12
      [] button = "Q"  -> 4
      [] button = "W"  -> 5
      [] button = "E"  -> 6
      [] button = "R"  -> 13
      [] button = "A"  -> 7
      [] button = "S"  -> 8
      [] button = "D"  -> 9
      [] button = "F"  -> 14
      [] button = "Z"  -> 10
      [] button = "X"  -> 0
      [] button = "C"  -> 11
      [] button = "V"  -> 15
      [] OTHER         -> 255

\* ButtonState::Press => 1, ButtonState::Release => 0
button_state(state) == IF state = "Press" THEN 1 ELSE 0

set_key(c, key, value) == [c EXCEPT !.key[key] = value]

\* Mutant: the key is stored whether or not the machine waits for one.
resolve_key_unguarded(c, key) ==
    [c EXCEPT !.v[c.halt_reg] = key, !.halt_flag = FALSE]

\* if chip8.halt_flag { chip8.v[chip8.halt_reg] = key; chip8.halt_flag = false }
resolve_key(c, key) ==
    IF c.halt_flag
    THEN [c EXCEPT !.v[c.halt_reg] = key, !.halt_flag = FALSE]
    ELSE c

\* main's "if chip8.pc > 4096 { ...; return }"
pc_out_of_range(c) == c.pc > 4096

-----------------------------------------------------------------------------
(* ROM images *)

\* The bytes of a sequence of 16-bit instruction words, big end first.
rom_bytes(words) ==
    [k \in 1..(2 * Len(words)) |->
        IF k % 2 = 1 THEN words[(k + 1) \div 2] \div 256
                     ELSE words[k \div 2] % 256]

\* rombuilder's foo.rom
RomBuilder == << \h81, \h26 >>

\* jump to an odd address; the words fetched from there on are 0x0300, 0
RomJumpOdd == rom_bytes(<< \h1203 >>)

\* v0 = rand & 1; jump to 0x300 + v0
RomJumpV0 == rom_bytes(<< \hC001, \hB300 >>)

\* 0x200 call 0x206; 0x202 jump 0x202; 0x204 ret; 0x206 call 0x204; 0x208 ret
RomCall == rom_bytes(<< \h2206, \h1202, \h00EE, \h2204, \h00EE >>)

\* 0x200 jump 0x205; 0x205 call 0x208; 0x207 jump 0x200; 0x208 ret
RomCallOdd == rom_bytes(<< \h1205, \h0000, \h0022, \h0812, \h00EE >>)

\* return with nothing on the stack
RomRetEmpty == rom_bytes(<< \h00EE >>)

\* a subroutine that calls itself
RomCallDeep == rom_bytes(<< \h2200 >>)

\* call into the interpreter area
RomCallLow == rom_bytes(<< \h2100 >>)

\* v0 = 5; delay = v0; sound = v0; wait for a key into v1; v1 += 1; loop
RomWaitKey == rom_bytes(<< \h6005, \hF015, \hF018, \hF10A, \h7101, \h120A >>)

\* wait for a key into v0; loop
RomWaitKey0 == rom_bytes(<< \hF00A, \h1202 >>)

\* words with no meaning, one per family, with the timers running
RomUnknown0 == rom_bytes(<< \h6003, \hF015, \hF018, \h0121 >>)

RomUnknown8 == rom_bytes(<< \h6003, \hF015, \hF018, \h8128, \h1208 >>)

RomUnknownE == rom_bytes(<< \h6003, \hF015, \hF018, \hE100 >>)

RomUnknownF == rom_bytes(<< \h6003, \hF015, \hF018, \hF100 >>)

\* jumps to the end of memory and past it
RomJumpLast == rom_bytes(<< \h1FFF >>)

RomJumpLastWord == rom_bytes(<< \h1FFE >>)

RomJumpEnd == rom_bytes(<< \h6001, \hBFFF >>)

RomJumpPast == rom_bytes(<< \h60FF, \hBFFF >>)

\* one byte more than fits between 512 and 4095
RomOversize == [k \in 1..(MEMORY_SIZE - ROM_START + 1) |-> \h12]

\* v0 = v1 = 5, v2 = 6; each register skip once with its condition true (the
\* next word, a jump back to 0x200, is skipped) and once with it false;
\* 0x21E jump 0x21E
RomSkips ==
    rom_bytes(<< \h6005, \h6105, \h6206,
                 \h3005, \h1200, \h3006,
                 \h4006, \h1200, \h4005,
                 \h5010, \h1200, \h5020,
                 \h9020, \h1200, \h9010, \h121E >>)

\* v0 = 1, v1 = 15; the key skips on keys 1 and 15, for ever
RomKeySkips ==
    rom_bytes(<< \h6001, \h610F, \hE09E, \hE0A1, \hE19E, \hE1A1,
                 \h1204, \h1204 >>)

\* v0 = 16; skip if key 16 is pressed
RomKeySkipOut == rom_bytes(<< \h6010, \hE09E >>)

Roms ==
    { RomBuilder, RomJumpOdd, RomJumpV0, RomCall, RomCallOdd, RomRetEmpty,
      RomCallDeep, RomCallLow, RomWaitKey, RomWaitKey0, RomUnknown0,
      RomUnknown8, RomUnknownE, RomUnknownF, RomJumpLast, RomJumpLastWord,
      RomJumpEnd, RomJumpPast, RomOversize, RomSkips, RomKeySkips,
      RomKeySkipOut }

-----------------------------------------------------------------------------
(* The program: main *)

NoOpcode == -1

NoEvent == [button |-> "", state |-> ""]

is_call(op) == BitAnd(op, FIRST_NIBBLE_MASK) = \h2000

is_ret(op) ==
    BitAnd(op, FIRST_NIBBLE_MASK) = \h0000 /\ BitAnd(op, FOURTH_NIBBLE_MASK) = \hE

\* The calls outstanding after an emulate_cycle that started in engine c and
\* ended with result r.
calls_after(c, r, outstanding) ==
    IF halted(c) \/ ~fetch_in_bounds(c) \/ r.panic THEN outstanding
    ELSE IF is_call(r.opcode)
    THEN Append(outstanding, [addr |-> c.pc, sp |-> c.sp])
    ELSE IF is_ret(r.opcode) /\ outstanding # << >>
    THEN SubSeq(outstanding, 1, Len(outstanding) - 1)
    ELSE outstanding

Init ==
    /\ chip8 = Chip8_new
    /\ loc = "new"
    /\ opcode = NoOpcode
    /\ beep = FALSE
    /\ overflow_checks \in BOOLEAN
    /\ cycles = 0
    /\ e = NoEvent
    /\ calls = << >>

\* chip8.initialize()
Initialize ==
    /\ loc = "new"
    /\ chip8' = initialize(chip8)
    /\ loc' = "init"
    /\ UNCHANGED <<opcode, beep, overflow_checks, cycles, e, calls>>

\* chip8.load_rom(romname)
LoadRom ==
    /\ loc = "init"
    /\ \E rom \in Roms :
         LET r == load_rom(chip8, rom)
         IN  /\ chip8' = r.c
             /\ loc' = IF r.panic THEN "panicked" ELSE "poll"
    /\ UNCHANGED <<opcode, beep, overflow_checks, cycles, e, calls>>

\* An event that is a press or release of a button key_translator knows:
\* set_key, then the key resolution.
ButtonEvent ==
    /\ loc = "poll"
    /\ cycles < MaxCycles
    /\ \E button \in ButtonInputs, state \in {"Press", "Release"} :
         LET key == key_translator(button)
         IN  /\ key # 255
             /\ chip8' = resolve_key(set_key(chip8, key, button_state(state)), key)
             /\ e' = [button |-> button, state |-> state]
    /\ loc' = "cycle"
    /\ cycles' = cycles + 1
    /\ UNCHANGED <<opcode, beep, overflow_checks, calls>>

\* A press or release of any other button: "Unknown key" is printed.
UnknownButtonEvent ==
    /\ loc = "poll"
    /\ cycles < MaxCycles
    /\ \E button \in ButtonInputs, state \in {"Press", "Release"} :
         /\ key_translator(button) = 255
         /\ e' = [button |-> button, state |-> state]
    /\ loc' = "cycle"
    /\ cycles' = cycles + 1
    /\ UNCHANGED <<chip8, opcode, beep, overflow_checks, calls>>

\* An event that is no button event (e.button_args() is None).
OtherEvent ==
    /\ loc = "poll"
    /\ cycles < MaxCycles
    /\ e' = NoEvent
    /\ loc' = "cycle"
    /\ cycles' = cycles + 1
    /\ UNCHANGED <<chip8, opcode, beep, overflow_checks, calls>>

\* "Accessing invalid memory, aborting"
PcAbort ==
    /\ loc = "cycle"
    /\ pc_out_of_range(chip8)
    /\ loc' = "aborted"
    /\ UNCHANGED <<chip8, opcode, beep, overflow_checks, cycles, e, calls>>

\* chip8.emulate_cycle(), which ends the loop iteration and its event
EmulateCycle ==
    /\ loc = "cycle"
    /\ ~pc_out_of_range(chip8)
    /\ \E rand \in RandInputs :
         LET r == emulate_cycle(chip8, opcode, rand, overflow_checks)
         IN  /\ chip8' = r.c
             /\ opcode' = r.opcode
             /\ beep' = r.beep
             /\ loc' = IF r.panic THEN "panicked" ELSE "poll"
             /\ calls' = calls_after(chip8, r, calls)
    /\ e' = NoEvent
    /\ UNCHANGED <<overflow_checks, cycles>>

Next ==
    \/ Initialize
    \/ LoadRom
    \/ ButtonEvent
    \/ UnknownButtonEvent
    \/ OtherEvent
    \/ PcAbort
    \/ EmulateCycle

Spec == Init /\ [][Next]_vars

-----------------------------------------------------------------------------
(* Generated programs: one instruction under test after the loads that set  *)
(* its operands, run by main with no button event arriving.                 *)

\* Register indices and byte values the generated programs draw from.
RegInputs == {0, 1, 15}

ByteInputs == {0, 1, 128, 255}

\* The 0x8XYN arms under test.
AluOps == {\h4, \h5, \h6, \h7, \hE}

\* instruction words
word_ld(x, kk) == \h6000 + x * 256 + kk

word_alu(x, y, n) == \h8000 + x * 256 + y * 16 + n

word_ld_i(addr) == \hA000 + addr

word_draw(x, y, n) == \hD000 + x * 256 + y * 16 + n

word_store(x) == \hF055 + x * 256

word_load(x) == \hF065 + x * 256

\* vx = a; vy = b; the 0x8xyn under test
AluPrograms ==
    { rom_bytes(<< word_ld(x, a), word_ld(y, b), word_alu(x, y, n) >>) :
        x \in RegInputs, y \in RegInputs, a \in ByteInputs, b \in ByteInputs,
        n \in AluOps }

\* Screen coordinates: inside, across the right edge, across the bottom edge.
XInputs == {0, 62}

YInputs == {0, 31}

\* I = glyph "0" of the font (F0 90 90 90 F0); a first sprite at (px, 0)
\* fills part of the screen; vF = f; then the n-row sprite at (x, y), three
\* times over.
DrawPrograms ==
    { rom_bytes(<< word_ld_i(0), word_ld(2, px), word_draw(2, 3, 5),
                   word_ld(0, x), word_ld(1, y), word_ld(15, f),
                   word_draw(0, 1, n), word_draw(0, 1, n),
                   word_draw(0, 1, n) >>) :
        px \in {1, 63}, x \in XInputs, y \in YInputs, f \in {0, 1},
        n \in {1, 2} }

\* v0 = 0x11; v1 = 0x22; v2 = 0x33; vF = 0xFF; I = 0x300; store v0..vx
StorePrograms ==
    { rom_bytes(<< word_ld(0, \h11), word_ld(1, \h22), word_ld(2, \h33),
                   word_ld(15, \hFF), word_ld_i(\h300), word_store(x) >>) :
        x \in {0, 1, 2, 15} }

\* v0 = v1 = v2 = 7; I = glyph "0" of the font; load v0..vx
LoadPrograms ==
    { rom_bytes(<< word_ld(0, 7), word_ld(1, 7), word_ld(2, 7),
                   word_ld_i(0), word_load(x) >>) :
        x \in {0, 1, 2, 15} }

\* I = 0xFFF, the last byte of memory, then an instruction that reaches past
\* I; and I = 0xFFF + v0 = 0x10FE by 0xF01E, then a one-row sprite
IndexPrograms ==
    { rom_bytes(<< word_ld_i(\hFFF), w >>) :
        w \in { word_draw(0, 1, 2), \hF033, word_store(2), word_load(2) } }
    \cup { rom_bytes(<< word_ld_i(\hFFF), word_ld(0, \hFF), \hF01E,
                       word_draw(0, 1, 1) >>) }

Programs ==
    AluPrograms \cup DrawPrograms \cup StorePrograms \cup LoadPrograms
        \cup IndexPrograms

\* chip8.load_rom(romname) with a generated program
LoadProgram ==
    /\ loc = "init"
    /\ \E rom \in Programs :
         LET r == load_rom(chip8, rom)
         IN  /\ chip8' = r.c
             /\ loc' = IF r.panic THEN "panicked" ELSE "poll"
    /\ UNCHANGED <<opcode, beep, overflow_checks, cycles, e, calls>>

NextProg ==
    \/ Initialize
    \/ LoadProgram
    \/ OtherEvent
    \/ EmulateCycle

SpecProg == Init /\ [][NextProg]_vars

-----------------------------------------------------------------------------
(* Properties *)

\* emulate_cycle is about to fetch and execute an instruction.
Fetches ==
    /\ loc = "cycle"
    /\ ~pc_out_of_range(chip8)
    /\ ~chip8.halt_flag
    /\ fetch_in_bounds(chip8)

\* the 12-bit address field of an instruction
nnn(op) == BitAnd(op, LAST_THREE_MASK)

family(op) == BitAnd(op, FIRST_NIBBLE_MASK)

\* program_counter and every saved return address are even
AllEven ==
    /\ chip8.pc % 2 = 0
    /\ \A k \in 0..15 : chip8.stack[k] % 2 = 0

\* the step executes a jump, call or jump-with-offset whose target is odd
OddTargetStep ==
    /\ Fetches
    /\ LET op == read_opcode(chip8)
       IN  \/ family(op) \in {\h1000, \h2000} /\ nnn(op) % 2 = 1
           \/ family(op) = \hB000 /\ (nnn(op) + chip8.v[0]) % 2 = 1

\* C1 as stated: program_counter is even in every reachable state.
C1_PcAlwaysEven == chip8.pc % 2 = 0

\* C1 amended: a step that is not a jump, call or jump-with-offset to an odd
\* target takes an even program_counter with even saved return addresses to
\* an even program_counter with even saved return addresses.
C1_ParityPreserved == [][(AllEven /\ ~OddTargetStep) => AllEven']_vars

\* a jump-with-offset to an even target has executed and pc is even
C1_Witness ==
    /\ loc = "poll"
    /\ opcode = \hB300
    /\ chip8.pc = \h300
    /\ AllEven

\* the step executes a return matching an outstanding call
MatchingReturnStep ==
    /\ Fetches
    /\ is_ret(read_opcode(chip8))
    /\ calls # << >>

\* C2: the return that matches a call made at address a with stack pointer s
\* completes, leaves program_counter = a + 2 and stack_pointer = s.
C2_CallReturnRoundTrip ==
    [][MatchingReturnStep =>
        /\ loc' = "poll"
        /\ chip8'.pc = calls[Len(calls)].addr + 2
        /\ chip8'.sp = calls[Len(calls)].sp]_vars

\* the nested calls of RomCall have both returned
C2_Witness ==
    /\ opcode = \h00EE
    /\ calls = << >>
    /\ chip8.pc = \h202
    /\ chip8.sp = 0
    /\ chip8.stack[1] = \h200
    /\ chip8.stack[2] = \h206

\* C3: emulate_cycle called with halt_flag set changes nothing of the engine.
C3_HaltedStepIsNoOp ==
    [][(loc = "cycle" /\ chip8.halt_flag) => chip8' = chip8]_vars

\* two cycles were taken while waiting, with both timers still running
C3_Witness ==
    /\ loc = "poll"
    /\ chip8.halt_flag
    /\ opcode = \hF10A
    /\ cycles = 6
    /\ chip8.delay_timer = 2
    /\ chip8.sound_timer = 3

\* the step delivers a key to a machine that waits for one
ResolveStep ==
    /\ loc = "poll"
    /\ chip8.halt_flag
    /\ ~chip8'.halt_flag

\* C4 as stated: the key that resolves the wait of 0xFx0A is in reg[x].
C4_KeyInRegisterX ==
    [][ResolveStep =>
        chip8'.v[nibble_x(opcode)] = key_translator(e'.button)]_vars

\* the step executes 0xFx0A
WaitKeyStep ==
    /\ Fetches
    /\ family(read_opcode(chip8)) = \hF000
    /\ BitAnd(read_opcode(chip8), LAST_TWO_MASK) = \h0A

\* C5 as stated: 0xFx0A leaves program_counter on the instruction and the
\* key resolution advances it by 2.
C5_AdvanceAtResolution ==
    [][/\ WaitKeyStep => chip8'.pc = chip8.pc
       /\ ResolveStep => chip8'.pc = chip8.pc + 2]_vars

\* C5 amended: the step that executes 0xFx0A at address a sets halt_flag and
\* leaves program_counter at a + 2; the key resolution leaves it there.
C5_AdvanceAtWait ==
    [][/\ WaitKeyStep => (chip8'.halt_flag /\ chip8'.pc = chip8.pc + 2)
       /\ ResolveStep => chip8'.pc = chip8.pc]_vars

\* the wait at 0x206 was resolved by a key
C5_Witness ==
    /\ loc = "cycle"
    /\ opcode = \hF10A
    /\ e.button = "V"
    /\ ~chip8.halt_flag
    /\ chip8.pc = \h208
    /\ chip8.v[0] = 15

\* C6: an event taken while halt_flag is clear changes no register, nor
\* program_counter, halt_flag or halt_register.
C6_KeyWhileRunning ==
    [][(loc = "poll" /\ ~chip8.halt_flag) =>
        /\ chip8'.v = chip8.v
        /\ chip8'.pc = chip8.pc
        /\ chip8'.halt_flag = chip8.halt_flag
        /\ chip8'.halt_reg = chip8.halt_reg]_vars

\* key 15 was pressed while RomCall, which never waits, was running
C6_Witness ==
    /\ loc = "cycle"
    /\ e = [button |-> "V", state |-> "Press"]
    /\ opcode = \h2206
    /\ ~chip8.halt_flag
    /\ chip8.key[15] = 1
    /\ chip8.v[0] = 0

\* the word has no arm of its own in emulate_cycle's matches
unknown_opcode(op) ==
    \/ /\ family(op) = \h0000
       /\ BitAnd(op, FOURTH_NIBBLE_MASK) \notin {\h0, \hE}
    \/ /\ family(op) = \h8000
       /\ BitAnd(op, FOURTH_NIBBLE_MASK) \notin (0..7) \cup {\hE}
    \/ /\ family(op) = \hE000
       /\ BitAnd(op, LAST_TWO_MASK) \notin {\h9E, \hA1}
    \/ /\ family(op) = \hF000
       /\ BitAnd(op, LAST_TWO_MASK) \notin
            {\h07, \h0A, \h15, \h18, \h1E, \h29, \h33, \h55, \h65}

\* C7 as stated: a step on an unknown word advances program_counter by 2,
\* decrements the timers and changes nothing else.
C7_UnknownAdvances ==
    [][(Fetches /\ unknown_opcode(read_opcode(chip8))) =>
        /\ loc' = "poll"
        /\ chip8' = update_timers(next_instruction(chip8))]_vars

\* C8 as stated: with program_counter or program_counter + 1 at 4096 or
\* more, the run stops with main's explicit error and fetches nothing.
C8_FetchGuarded ==
    [][(loc = "cycle" /\ ~chip8.halt_flag /\ ~fetch_in_bounds(chip8)) =>
        loc' = "aborted"]_vars

\* C9 as stated: stack_pointer is within 0..15 and is 0 when no call is
\* outstanding.
C9_StackPointerInRange ==
    /\ chip8.sp \in 0..15
    /\ calls = << >> => chip8.sp = 0

\* C10 as stated: a load that does not fit leaves the engine as it was.
C10_FailedLoadWritesNothing ==
    [][(loc = "init" /\ loc' = "panicked") => chip8' = chip8]_vars

-----------------------------------------------------------------------------
(* Timers *)

\* an emulate_cycle that fetches, executes and returns
RunningStep == Fetches /\ loc' = "poll"

is_fx(op, nn) == family(op) = \hF000 /\ BitAnd(op, LAST_TWO_MASK) = nn

\* The value a timer holds when the timer update of the step reaches it: the
\* one an 0xFX15 / 0xFX18 of that step loaded, else the one before the step.
delay_at_update(c, op) ==
    IF is_fx(op, \h15) THEN c.v[nibble_x(op)] ELSE c.delay_timer

sound_at_update(c, op) ==
    IF is_fx(op, \h18) THEN c.v[nibble_x(op)] ELSE c.sound_timer

floor_dec(t) == IF t > 0 THEN t - 1 ELSE 0

\* C11: every returning step of the running machine takes exactly one off
\* each non-zero timer and leaves a zero timer at zero, whatever the opcode
\* and whatever the other timer holds; the timers stay within 0..255.
C11_TimersFloorAtZero ==
    [][RunningStep =>
        LET op == read_opcode(chip8)
        IN  /\ chip8'.delay_timer = floor_dec(delay_at_update(chip8, op))
            /\ chip8'.sound_timer = floor_dec(sound_at_update(chip8, op))
            /\ chip8'.delay_timer \in 0..(U8 - 1)
            /\ chip8'.sound_timer \in 0..(U8 - 1)]_vars

\* delay_timer was 2 after 0xF015; two steps took it to 0 and a third left it
\* there, while sound_timer ran from 2 to 0 one step behind.
C11_Witness ==
    /\ loc = "poll"
    /\ opcode = \h0121
    /\ cycles = 5
    /\ chip8.delay_timer = 0
    /\ chip8.sound_timer = 0

\* C13: a step prints "BEEP!" exactly when it runs its timer update with
\* sound_timer at 1 (which the update then takes to 0); a halted step and a
\* step with sound_timer at 0 or above 1 print nothing.
C13_BeepAtOne ==
    [][(loc = "cycle" /\ loc' = "poll") =>
        /\ beep' <=> (Fetches /\ sound_at_update(chip8, read_opcode(chip8)) = 1)
        /\ beep' => chip8'.sound_timer = 0]_vars

\* the step that took sound_timer from 1 to 0 has just beeped
C13_Witness ==
    /\ loc = "poll"
    /\ beep
    /\ chip8.sound_timer = 0
    /\ opcode = \h0121

-----------------------------------------------------------------------------
(* Display flag *)

\* a returning step whose opcode belongs to the family fam
FamilyStep(fam) == RunningStep /\ family(read_opcode(chip8)) = fam

\* C12: draw_flag is set when the emulate_cycle that executed a 0xDXYN
\* returns.
C12_DrawFlagSetOnReturn ==
    [][FamilyStep(\hD000) => chip8'.draw_flag]_vars

-----------------------------------------------------------------------------
(* Arithmetic flags *)

\* a returning step whose opcode is 0x8XYn
AluStep(n) ==
    /\ FamilyStep(\h8000)
    /\ BitAnd(read_opcode(chip8), FOURTH_NIBBLE_MASK) = n

\* C14: after 0x8XY4, v[15] is 1 when the sum of the old v[x] and v[y] is 256
\* or more and 0 otherwise, and for x other than 15 v[x] is the sum modulo 256.
C14_AddCarry ==
    [][AluStep(\h4) =>
        LET x   == nibble_x(read_opcode(chip8))
            y   == nibble_y(read_opcode(chip8))
            sum == chip8.v[x] + chip8.v[y]
        IN  /\ chip8'.v[15] = IF sum >= 256 THEN 1 ELSE 0
            /\ x # 15 => chip8'.v[x] = sum % 256]_vars

\* 1 + 255 has wrapped to 0 with the carry set
C14_Witness ==
    /\ loc = "poll"
    /\ opcode = word_alu(0, 1, \h4)
    /\ chip8.v[0] = 0
    /\ chip8.v[1] = 255
    /\ chip8.v[15] = 1

\* C15: 0x8XY5 leaves v[15] = 1 exactly when the old v[x] >= the old v[y],
\* and 0x8XY7 exactly when the old v[y] >= the old v[x], equal operands
\* included.
C15_SubNoBorrow ==
    [][/\ AluStep(\h5) =>
            LET x == nibble_x(read_opcode(chip8))
                y == nibble_y(read_opcode(chip8))
            IN  chip8'.v[15] = IF chip8.v[x] >= chip8.v[y] THEN 1 ELSE 0
       /\ AluStep(\h7) =>
            LET x == nibble_x(read_opcode(chip8))
                y == nibble_y(read_opcode(chip8))
            IN  chip8'.v[15] = IF chip8.v[y] >= chip8.v[x] THEN 1 ELSE 0]_vars

-----------------------------------------------------------------------------
(* Sprites *)

\* the pixels that differ between two screens
Changed(s1, s2) == (s1 \ s2) \cup (s2 \ s1)

\* whether bit b (0 the most significant) of sprite row r is set
sprite_bit(c, r, b) ==
    BitAnd(Shr(mem_get(c.memory, c.i + r), 7 - b), 1) # 0

\* The screen indices of the sprite's region for the draw op in state c: the
\* cells (v[X] + b, v[Y] + r) of its 8 columns and N rows that lie on the
\* 64 x 32 screen.
Region(c, op) ==
    LET x == c.v[nibble_x(op)]
        y == c.v[nibble_y(op)]
        n == BitAnd(op, FOURTH_NIBBLE_MASK)
    IN  { (x + b) + (64 * (y + r)) :
            <<b, r>> \in { q \in (0..7) \X (0..(n - 1)) :
                             x + q[1] < 64 /\ y + q[2] < 32 } }

\* the cells of the region whose sprite bit is set
SetCells(c, op) ==
    LET x == c.v[nibble_x(op)]
        y == c.v[nibble_y(op)]
        n == BitAnd(op, FOURTH_NIBBLE_MASK)
    IN  { (x + q[1]) + (64 * (y + q[2])) :
            q \in { q \in (0..7) \X (0..(n - 1)) :
                      /\ x + q[1] < 64
                      /\ y + q[2] < 32
                      /\ sprite_bit(c, q[2], q[1]) } }

\* a returning step that executes a 0xDXYN
DrawStep == FamilyStep(\hD000)

\* C16: a draw changes no pixel outside the sprite's region, and the same
\* draw executed again at the same coordinates gives back the screen of
\* before the first.
C16_DrawTwiceRestores ==
    [][DrawStep =>
        LET op == read_opcode(chip8)
            x  == nibble_x(op)
            y  == nibble_y(op)
        IN  /\ Changed(chip8.screen, chip8'.screen) \subseteq Region(chip8, op)
            /\ (chip8'.v[x] = chip8.v[x] /\ chip8'.v[y] = chip8.v[y]) =>
                 op_draw(chip8', op).c.screen = chip8.screen]_vars

\* C17: a draw flips exactly the cells of set sprite bits that lie on the
\* screen; a set bit at column 64 or more or row 32 or more changes no pixel.
C17_OffScreenDiscarded ==
    [][DrawStep =>
        Changed(chip8.screen, chip8'.screen)
          = SetCells(chip8, read_opcode(chip8))]_vars

\* C18: after a draw, v[15] is 1 when the draw flipped a pixel that was set
\* to unset and 0 otherwise, whatever v[15] held before.
C18_CollisionFlag ==
    [][DrawStep =>
        chip8'.v[15] = IF chip8.screen \ chip8'.screen # {} THEN 1 ELSE 0]_vars

\* the second draw of the sprite has erased the pixels of the first
C18_Witness ==
    /\ loc = "poll"
    /\ opcode = word_draw(0, 1, 2)
    /\ cycles = 8
    /\ chip8.v[15] = 1

-----------------------------------------------------------------------------
(* Register block transfers *)

\* a returning step that executes 0xFXnn
FxStep(nn) == RunningStep /\ is_fx(read_opcode(chip8), nn)

\* C19: 0xFX55 leaves v[k] at memory[i + k] for every k from 0 to X, X
\* included, and changes no other byte of memory.
C19_StoreInclusive ==
    [][FxStep(\h55) =>
        LET x == nibble_x(read_opcode(chip8))
        IN  /\ \A k \in 0..x :
                 mem_get(chip8'.memory, chip8.i + k) = chip8.v[k]
            /\ \A a \in (0..(MEMORY_SIZE - 1)) \ (chip8.i..(chip8.i + x)) :
                 mem_get(chip8'.memory, a) = mem_get(chip8.memory, a)]_vars

\* C20: 0xFX65 leaves memory[i + k] in v[k] for every k from 0 to X, X
\* included, and changes no register above X.
C20_LoadInclusive ==
    [][FxStep(\h65) =>
        LET x == nibble_x(read_opcode(chip8))
        IN  /\ \A k \in 0..x :
                 chip8'.v[k] = mem_get(chip8.memory, chip8.i + k)
            /\ \A k \in (x + 1)..15 : chip8'.v[k] = chip8.v[k]]_vars

-----------------------------------------------------------------------------
(* Shifts and the subtraction result *)

\* C21: after 0x8XY6, v[15] is the most significant bit of the old v[x],
\* whatever v[15] held and whatever Y is, and for X other than 15 v[x] is
\* the old value shifted right by one.
C21_ShiftRightFlag ==
    [][AluStep(\h6) =>
        LET x == nibble_x(read_opcode(chip8))
        IN  /\ chip8'.v[15] = chip8.v[x] \div 128
            /\ x # 15 => chip8'.v[x] = chip8.v[x] \div 2]_vars

\* C22: after 0x8XYE, v[15] is the least significant bit of the old v[x],
\* whatever v[15] held, and for X other than 15 v[x] is twice the old value
\* modulo 256.
C22_ShiftLeftFlag ==
    [][AluStep(\hE) =>
        LET x == nibble_x(read_opcode(chip8))
        IN  /\ chip8'.v[15] = chip8.v[x] % 2
            /\ x # 15 => chip8'.v[x] = (chip8.v[x] * 2) % 256]_vars

\* C23: after 0x8XY5 with X other than 15, v[x] is the old v[x] minus the old
\* v[y] modulo 256, Y = 15 included.
C23_SubResult ==
    [][AluStep(\h5) =>
        LET x == nibble_x(read_opcode(chip8))
            y == nibble_y(read_opcode(chip8))
        IN  x # 15 =>
              chip8'.v[x] = (chip8.v[x] + 256 - chip8.v[y]) % 256]_vars

-----------------------------------------------------------------------------
(* Skips *)

\* 0x3XKK, 0x4XKK, 0x5XY0, 0x9XY0, 0xEX9E, 0xEXA1
is_skip(op) ==
    \/ family(op) \in {\h3000, \h4000}
    \/ family(op) \in {\h5000, \h9000} /\ BitAnd(op, FOURTH_NIBBLE_MASK) = 0
    \/ family(op) = \hE000 /\ BitAnd(op, LAST_TWO_MASK) \in {\h9E, \hA1}

is_key_skip(op) ==
    family(op) = \hE000 /\ BitAnd(op, LAST_TWO_MASK) \in {\h9E, \hA1}

\* the condition of the skip op in state c
skip_condition(c, op) ==
    LET x  == nibble_x(op)
        y  == nibble_y(op)
        kk == BitAnd(op, LAST_TWO_MASK)
    IN  CASE family(op) = \h3000 -> c.v[x] = kk
          [] family(op) = \h4000 -> c.v[x] # kk
          [] family(op) = \h5000 -> c.v[x] = c.v[y]
          [] family(op) = \h9000 -> c.v[x] # c.v[y]
          [] kk = \h9E           -> c.key[c.v[x]] = 1
          [] OTHER               -> c.key[c.v[x]] = 0

\* C24: a skip executed at address a that returns leaves pc at a + 4 when
\* its condition holds and at a + 2 when it does not, and changes no
\* register, no byte of memory and no key.
C24_SkipAdvance ==
    [][(RunningStep /\ is_skip(read_opcode(chip8))) =>
        /\ chip8'.pc = chip8.pc +
             (IF skip_condition(chip8, read_opcode(chip8)) THEN 4 ELSE 2)
        /\ chip8'.v = chip8.v
        /\ chip8'.i = chip8.i
        /\ chip8'.memory = chip8.memory
        /\ chip8'.key = chip8.key]_vars

\* 0xE09E at 0x204 has skipped the word at 0x206 with key 1 down
C24_Witness ==
    /\ loc = "poll"
    /\ opcode = \hE09E
    /\ chip8.pc = \h208
    /\ chip8.key[1] = 1

\* C26: a key skip that is fetched completes, whatever v[x] holds.
C26_KeySkipCompletes ==
    [][(Fetches /\ is_key_skip(read_opcode(chip8))) => loc' = "poll"]_vars

-----------------------------------------------------------------------------
(* Accesses through the index register *)

\* the opcodes that read or write memory at i and above
is_index_access(op) ==
    \/ family(op) = \hD000
    \/ is_fx(op, \h33)
    \/ is_fx(op, \h55)
    \/ is_fx(op, \h65)

\* C25: every fetched instruction that reaches memory through i completes,
\* none of its accesses lying at 4096 or above, and 0xFX1E leaves the sum
\* i + v[x] in i without wrapping.
C25_IndexAccessInRange ==
    [][Fetches =>
        LET op == read_opcode(chip8)
        IN  /\ is_index_access(op) => loc' = "poll"
            /\ is_fx(op, \h1E) =>
                 /\ loc' = "poll"
                 /\ chip8'.i = chip8.i + chip8.v[nibble_x(op)]]_vars

=============================================================================
